---- MODULE Spec2Model ----
(***************************************************************************)
(* Model of lib/procinfo_unix.cpp: PROC_STAT::parse and procinfo_setup,    *)
(* the /proc scan that builds the process table (PROC_MAP) on Linux (text  *)
(* record /proc/PID/stat) and on Solaris (binary psinfo and usage).        *)
(*                                                                         *)
(* The host (the /proc listing, the content of every per-process file,     *)
(* the page size, the caller's pid and the map the caller passes in) is    *)
(* chosen in Init and never changes; the remaining variables are the       *)
(* locals of procinfo_setup, one action per statement group of the loop.   *)
(***************************************************************************)
EXTENDS Integers, Sequences, FiniteSets, TLC

VARIABLES
    platform,       \* "linux" | "solaris": the #if of line 189 (build-time)
    dirExists,      \* whether opendir("/proc") succeeds
    listing,        \* the entries readdir returns, in enumeration order
    pagesize,       \* getpagesize()
    pid,            \* getpid(), line 178
    pm_arg,         \* the PROC_MAP as the caller passed it in
    pc,             \* position in procinfo_setup
    dir,            \* the DIR* handle: "NULL" | "open" | "closed"
    pos,            \* entries already returned by readdir
    piddir,         \* index in listing of the current dirent, 0 = NULL
    nOpenFiles,     \* FILE handles fopen returned and fclose has not released
    buf,            \* the line fgets put in buf[1024]
    retval,         \* line 179
    final_retval,   \* line 179
    ps,             \* PROC_STAT ps, line 175
    psinfo,         \* psinfo_t psinfo, line 190 (solaris)
    p,              \* PROCINFO p of the current iteration
    pm,             \* the PROC_MAP being filled
    result          \* the value procinfo_setup returned, once pc = "done"

vars == <<platform, dirExists, listing, pagesize, pid, pm_arg, pc, dir, pos,
          piddir, nOpenFiles, buf, retval, final_retval, ps, psinfo, p, pm,
          result>>

host == <<platform, dirExists, listing, pagesize, pid, pm_arg>>

----------------------------------------------------------------------------
(* Bounds and program constants *)

\* longest /proc listing of a scan
MaxEntries == 3

\* the number of conversions sscanf must make, line 161
NFields == 39

\* the code for a NULL fgets, line 224.  Its value is set in error_numbers.h
\* (included at line 50); the scan depends only on its being neither zero
\* nor the 1 that parse returns.
ERR_NULL == -116

\* the width a (float) keeps exactly: 24 bits of significand, line 241
FloatBits == 24

----------------------------------------------------------------------------
(* The record /proc/PID/stat and PROC_STAT::parse *)

\* /proc/PID/stat: missing (fopen fails), empty (fgets returns NULL: the
\* process exited after the open), or one line, given by what determines its
\* text: its number nf of fields, the field `bad` (0: none) that is not a
\* number, and the values of the fields the scan reads
NoStat ==
    [st |-> "noent", nf |-> 0, bad |-> 0, pid |-> 0, comm |-> "", ppid |-> 0,
     priority |-> 0, vsize |-> 0, rss |-> 0]
EmptyStat == [NoStat EXCEPT !.st = "empty"]
StatLine(nf, bad, id, comm, ppid, priority, vsize, rss) ==
    [st |-> "line", nf |-> nf, bad |-> bad, pid |-> id, comm |-> comm,
     ppid |-> ppid, priority |-> priority, vsize |-> vsize, rss |-> rss]

\* the position of each member of PROC_STAT the scan reads, lines 121-159
F_pid == 1
F_comm == 2
F_ppid == 4
F_minflt == 10
F_majflt == 12
F_utime == 14
F_stime == 15
F_priority == 18
F_vsize == 23
F_rss == 24

Num(v) == [k |-> "num", v |-> v, s |-> ""]
Comm(s) == [k |-> "comm", v |-> 0, s |-> s]
Chr(s) == [k |-> "chr", v |-> 0, s |-> s]
Word(s) == [k |-> "word", v |-> 0, s |-> s]

\* the i-th token of line f as sscanf meets it: the members of PROC_STAT in
\* the order the kernel prints them (lines 69-107), vsize in bytes and rss in
\* pages
Token(f, i) ==
    IF i = f.bad THEN Word("x")
    ELSE CASE i = F_pid -> Num(f.pid)
           [] i = F_comm -> Comm(f.comm)
           [] i = 3 -> Chr("S")
           [] i = F_ppid -> Num(f.ppid)
           [] i = F_minflt -> Num(2)
           [] i = F_majflt -> Num(1)
           [] i = F_utime -> Num(150)
           [] i = F_stime -> Num(50)
           [] i = F_priority -> Num(f.priority)
           [] i = F_vsize -> Num(f.vsize)
           [] i = F_rss -> Num(f.rss)
           [] OTHER -> Num(0)

\* the format string of lines 114-120: its i-th conversion
Format(i) ==
    CASE i = 1 -> "d"
      [] i = 2 -> "comm"
      [] i = 3 -> "c"
      [] i \in 4..8 -> "lld"
      [] i \in 9..15 -> "llu"
      [] i \in 16..21 -> "lld"
      [] i \in 22..23 -> "llu"
      [] i = 24 -> "lld"
      [] i \in 25..37 -> "llu"
      [] i \in 38..39 -> "lld"

\* whether conversion c consumes token t: a number for %d %lld %llu, a
\* non-empty parenthesised name for (%[^)]), one character for %c
Matches(c, t) ==
    CASE c = "comm" -> t.k = "comm" /\ t.s # ""
      [] c = "c" -> t.k = "chr"
      [] OTHER -> t.k = "num"

\* the conversions sscanf makes from token i on, given that the i-1 before
\* it were made: it stops at the first mismatch and at the end of the input
RECURSIVE Conversions(_, _)
Conversions(f, i) ==
    IF i > NFields \/ i > f.nf THEN i - 1
    ELSE IF Matches(Format(i), Token(f, i)) THEN Conversions(f, i + 1)
    ELSE i - 1

\* what sscanf returns: the conversions made, EOF (-1) when the input ends
\* before the first one
sscanf(f) == IF f.nf = 0 THEN -1 ELSE Conversions(f, 1)

\* a member is stored only when its conversion was made
Stored(old, f, n, i) == IF n >= i THEN Token(f, i).v ELSE old

\* PROC_STAT after sscanf made n conversions on f, lines 113-160
Scanned(old, f, n) ==
    [pid |-> Stored(old.pid, f, n, F_pid),
     comm |-> IF n >= F_comm THEN Token(f, F_comm).s ELSE old.comm,
     ppid |-> Stored(old.ppid, f, n, F_ppid),
     minflt |-> Stored(old.minflt, f, n, F_minflt),
     majflt |-> Stored(old.majflt, f, n, F_majflt),
     utime |-> Stored(old.utime, f, n, F_utime),
     stime |-> Stored(old.stime, f, n, F_stime),
     priority |-> Stored(old.priority, f, n, F_priority),
     vsize |-> Stored(old.vsize, f, n, F_vsize),
     rss |-> Stored(old.rss, f, n, F_rss)]

\* variant of ParseResult: one conversion fewer is accepted
ParseOffByOne(n) == IF n >= NFields - 1 THEN 0 ELSE 1

\* the return value of PROC_STAT::parse, lines 161-166
ParseResult(n) == IF n = NFields THEN 0 ELSE 1

\* PROC_STAT::parse(buf), lines 112-167
parse(old, line) ==
    CHOOSE r \in { [retval |-> ParseResult(n), ps |-> Scanned(old, line, n)] :
                      n \in {sscanf(line)} } : TRUE

----------------------------------------------------------------------------
(* The host: what /proc holds during one scan *)

\* /proc/PID/psinfo and /proc/PID/usage: missing, shorter than the structure,
\* or the whole structure
NoPsinfo ==
    [st |-> "noent", pr_pid |-> 0, pr_ppid |-> 0, pr_size |-> 0,
     pr_rssize |-> 0, pr_fname |-> ""]
ShortPsinfo == [NoPsinfo EXCEPT !.st = "short"]
FullPsinfo(id, ppid, size, rssize, fname) ==
    [st |-> "full", pr_pid |-> id, pr_ppid |-> ppid, pr_size |-> size,
     pr_rssize |-> rssize, pr_fname |-> fname]
NoUsage ==
    [st |-> "noent", ut_sec |-> 0, ut_nsec |-> 0, st_sec |-> 0, st_nsec |-> 0,
     pr_majf |-> 0, pr_minf |-> 0]
ShortUsage == [NoUsage EXCEPT !.st = "short"]
FullUsage ==
    [st |-> "full", ut_sec |-> 1, ut_nsec |-> 500, st_sec |-> 0,
     st_nsec |-> 250, pr_majf |-> 1, pr_minf |-> 2]

Entry(name, stat, psi, usage) ==
    [name |-> name, stat |-> stat, psinfo |-> psi, usage |-> usage]

\* names of /proc: a pid, a name that only starts with a digit, and "self"
NumericName == <<"4", "2">>
DigitFirstName == <<"1", "x">>
SelfName == <<"s", "e", "l", "f">>

GoodLines ==
    { StatLine(NFields, 0, 1, "init", 0, 20, 4096, 1),
      StatLine(NFields, 0, 1, "boinc", 0, 39, 20480, 3),
      StatLine(NFields + 13, 0, 2, "BOINC_client", 1, 39, 20480, 3) }
BadLines ==
    { StatLine(NFields - 1, 0, 3, "short", 1, 20, 4096, 1),
      StatLine(0, 0, 0, "", 0, 0, 0, 0),
      StatLine(NFields, F_rss, 1, "init", 0, 20, 4096, 1) }

LinuxEntries ==
    { Entry(NumericName, f, NoPsinfo, NoUsage) :
        f \in {NoStat, EmptyStat} \cup GoodLines \cup BadLines }
    \cup { Entry(SelfName, StatLine(NFields, 0, 2, "sh", 1, 20, 4096, 1),
                 NoPsinfo, NoUsage),
           Entry(DigitFirstName, NoStat, NoPsinfo, NoUsage),
           Entry(DigitFirstName, StatLine(NFields, 0, 3, "odd", 1, 20, 4096, 1),
                 NoPsinfo, NoUsage) }

SolarisEntries ==
    { Entry(NumericName, NoStat, NoPsinfo, NoUsage),
      Entry(SelfName, NoStat, FullPsinfo(2, 1, 4, 1, "sh"), FullUsage),
      Entry(DigitFirstName, NoStat, FullPsinfo(3, 1, 4, 1, "odd"), FullUsage) }
    \cup { Entry(NumericName, NoStat, i, u) :
            i \in {ShortPsinfo, FullPsinfo(1, 0, 4, 1, "init"),
                   FullPsinfo(2, 1, 20, 3, "boinc")},
            u \in {NoUsage, ShortUsage, FullUsage} }

SeqsUpTo(S, n) == UNION { [1..k -> S] : k \in 0..n }

----------------------------------------------------------------------------
(* PROCINFO and PROC_MAP *)

\* PROCINFO::clear(): every member zero or empty.  Times are kept in
\* nanoseconds, sizes in bytes.
PROCINFO_clear ==
    [id |-> 0, parentid |-> 0, swap_size |-> 0, working_set_size |-> 0,
     page_fault_count |-> 0, user_time |-> 0, kernel_time |-> 0,
     command |-> "", is_boinc_app |-> FALSE, is_low_priority |-> FALSE,
     children |-> {}]

\* an entry left in the caller's map by an earlier scan
Stale(id) ==
    [PROCINFO_clear EXCEPT !.id = id, !.command = "gone",
                           !.working_set_size = 8192]

EmptyMap == [k \in {} |-> PROCINFO_clear]

\* std::map::insert(std::pair(k, v)): a key already present keeps its value,
\* lines 218 and 254
MapInsert(m, k, v) ==
    [x \in DOMAIN m \cup {k} |-> IF x \in DOMAIN m THEN m[x] ELSE v]

\* find_children (procinfo.cpp): each entry is given the ids whose parentid
\* names it; no entry is removed and no id or parentid changes
find_children(m) ==
    [k \in DOMAIN m |->
        [m[k] EXCEPT !.children =
            @ \cup {c \in DOMAIN m : m[c].parentid = k}]]

\* strcasestr(command, "boinc") != NULL, on the commands of the host
HasBoinc(command) == command \in {"boinc", "BOINC_client"}

isdigit(c) == c \in {"0", "1", "2", "3", "4", "5", "6", "7", "8", "9"}

RECURSIVE Ulp(_, _)
Ulp(a, u) == IF a \div u < 2 ^ FloatBits THEN u ELSE Ulp(a, 2 * u)

\* (float)x: x rounded to a significand of FloatBits bits, ties to even
FloatOf(x) ==
    LET a == IF x < 0 THEN -x ELSE x
        u == Ulp(a, 1)
        q == a \div u
        r == a % u
        m == IF 2 * r > u \/ (2 * r = u /\ q % 2 = 1) THEN (q + 1) * u
             ELSE q * u
    IN  IF x < 0 THEN -m ELSE m

\* ps.rss * (float)getpagesize(): a float product, line 241
FloatMul(a, b) == FloatOf(FloatOf(a) * FloatOf(b))

----------------------------------------------------------------------------
(* procinfo_setup *)

\* the members of PROC_STAT the scan reads; ps is never read before a parse
\* has stored all of them
NoProcStat ==
    [pid |-> 0, comm |-> "", ppid |-> 0, minflt |-> 0, majflt |-> 0,
     utime |-> 0, stime |-> 0, priority |-> 0, vsize |-> 0, rss |-> 0]

StaleMap == MapInsert(MapInsert(EmptyMap, 1, Stale(1)), 5, Stale(5))

InitOn(platforms) ==
    /\ platform \in platforms
    /\ dirExists \in BOOLEAN
    /\ listing \in IF ~dirExists THEN {<<>>}
                   ELSE SeqsUpTo(IF platform = "linux" THEN LinuxEntries
                                 ELSE SolarisEntries, MaxEntries)
    /\ pagesize \in IF platform = "linux" THEN {4096, 16384} ELSE {4096}
    /\ pid = 2
    /\ pm_arg \in {EmptyMap, StaleMap}
    /\ pc = "opendir"
    /\ dir = "NULL"
    /\ pos = 0
    /\ piddir = 0
    /\ nOpenFiles = 0
    /\ buf = NoStat
    /\ retval = 0
    /\ final_retval = 0
    /\ ps = NoProcStat
    /\ psinfo = NoPsinfo
    /\ p = PROCINFO_clear
    /\ pm = pm_arg
    /\ result = 0

Init == InitOn({"linux", "solaris"})
InitLinux == InitOn({"linux"})
InitSolaris == InitOn({"solaris"})

\* lines 181-182
opendir ==
    /\ pc = "opendir"
    /\ IF dirExists
       THEN /\ dir' = "open"
            /\ pc' = "readdir"
            /\ UNCHANGED result
       ELSE /\ pc' = "done"
            /\ result' = 0
            /\ UNCHANGED dir
    /\ UNCHANGED <<host, pos, piddir, nOpenFiles, buf, retval, final_retval,
                   ps, psinfo, p, pm>>

\* line 187: the test an entry must pass to be taken for a process
IsProcessEntry(name) == isdigit(name[1])

\* lines 185-187
readdir ==
    /\ pc = "readdir"
    /\ IF pos = Len(listing)
       THEN /\ piddir' = 0
            /\ pc' = "closedir"
            /\ UNCHANGED pos
       ELSE /\ piddir' = pos + 1
            /\ pos' = pos + 1
            /\ pc' = IF IsProcessEntry(listing[pos + 1].name) THEN "fopen"
                     ELSE "readdir"
    /\ UNCHANGED <<host, dir, nOpenFiles, buf, retval, final_retval, ps,
                   psinfo, p, pm, result>>

\* lines 220-222
LinuxFopen ==
    /\ pc = "fopen"
    /\ platform = "linux"
    /\ IF listing[piddir].stat.st = "noent"
       THEN /\ pc' = "readdir"
            /\ UNCHANGED nOpenFiles
       ELSE /\ pc' = "fgets"
            /\ nOpenFiles' = nOpenFiles + 1
    /\ UNCHANGED <<host, dir, pos, piddir, buf, retval, final_retval, ps,
                   psinfo, p, pm, result>>

\* variant of ReadStat: a NULL fgets is not reported
NullReadIgnored(f, old, b) ==
    IF f.st = "empty" THEN [retval |-> 0, ps |-> old, buf |-> b]
    ELSE parse(old, f) @@ [buf |-> f]

\* lines 223-227: fgets, then parse unless fgets returned NULL
ReadStat(f, old, b) ==
    IF f.st = "empty" THEN [retval |-> ERR_NULL, ps |-> old, buf |-> b]
    ELSE parse(old, f) @@ [buf |-> f]

LinuxFgets ==
    /\ pc = "fgets"
    /\ \E r \in {ReadStat(listing[piddir].stat, ps, buf)} :
           /\ retval' = r.retval
           /\ ps' = r.ps
           /\ buf' = r.buf
    /\ pc' = "fclose"
    /\ UNCHANGED <<host, dir, pos, piddir, nOpenFiles, final_retval, psinfo,
                   p, pm, result>>

\* variant of Fclose: the failure path leaves before the fclose
FcloseOnSuccessOnly(rv, n) == IF rv = 0 THEN n - 1 ELSE n

\* line 228: the handle is released whatever retval is
Fclose(rv, n) == n - 1

\* variant of FinalRetval: a failure is recorded only while none is
FirstFailureKept(rv, fr) == IF rv # 0 /\ fr = 0 THEN rv ELSE fr

\* lines 230-231
FinalRetval(rv, fr) == IF rv # 0 THEN rv ELSE fr

\* lines 228-233
LinuxFclose ==
    /\ pc = "fclose"
    /\ nOpenFiles' = Fclose(retval, nOpenFiles)
    /\ final_retval' = FinalRetval(retval, final_retval)
    /\ pc' = IF retval # 0 THEN "readdir" ELSE "fill"
    /\ UNCHANGED <<host, dir, pos, piddir, buf, retval, ps, psinfo, p, pm,
                   result>>

\* variant of SwapSize: vsize taken for pages
SwapSizeInPages(s, pgsz) == FloatMul(s.vsize, pgsz)

\* line 238: vsize is already in bytes
SwapSize(s, pgsz) == s.vsize

\* lines 234-250
FillLinux(s, pgsz, self) ==
    [id |-> s.pid,
     parentid |-> s.ppid,
     swap_size |-> SwapSize(s, pgsz),
     working_set_size |-> FloatMul(s.rss, pgsz),
     page_fault_count |-> s.majflt + s.minflt,
     user_time |-> s.utime * (1000000000 \div 100),
     kernel_time |-> s.stime * (1000000000 \div 100),
     command |-> s.comm,
     is_boinc_app |-> (s.pid = self \/ HasBoinc(s.comm)),
     is_low_priority |-> (s.priority = 39),
     children |-> {}]

LinuxFill ==
    /\ pc = "fill"
    /\ p' = FillLinux(ps, pagesize, pid)
    /\ pc' = "insert"
    /\ UNCHANGED <<host, dir, pos, piddir, nOpenFiles, buf, retval,
                   final_retval, ps, psinfo, pm, result>>

\* line 254
LinuxInsert ==
    /\ pc = "insert"
    /\ pm' = MapInsert(pm, p.id, p)
    /\ pc' = "readdir"
    /\ UNCHANGED <<host, dir, pos, piddir, nOpenFiles, buf, retval,
                   final_retval, ps, psinfo, p, result>>

\* lines 191-195
SolarisFopenPsinfo ==
    /\ pc = "fopen"
    /\ platform = "solaris"
    /\ IF listing[piddir].psinfo.st = "noent"
       THEN /\ pc' = "readdir"
            /\ UNCHANGED <<nOpenFiles, p>>
       ELSE /\ pc' = "fread_psinfo"
            /\ nOpenFiles' = nOpenFiles + 1
            /\ p' = PROCINFO_clear
    /\ UNCHANGED <<host, dir, pos, piddir, buf, retval, final_retval, ps,
                   psinfo, pm, result>>

\* lines 196-203
SolarisFreadPsinfo ==
    /\ pc = "fread_psinfo"
    /\ LET f == listing[piddir].psinfo
       IN  IF f.st = "full"
           THEN /\ psinfo' = f
                /\ p' = [p EXCEPT !.id = f.pr_pid,
                                  !.parentid = f.pr_ppid,
                                  !.swap_size = f.pr_size * 1024,
                                  !.working_set_size = f.pr_rssize * 1024,
                                  !.command = f.pr_fname]
           ELSE UNCHANGED <<psinfo, p>>
    /\ nOpenFiles' = nOpenFiles - 1
    /\ pc' = "fopen_usage"
    /\ UNCHANGED <<host, dir, pos, piddir, buf, retval, final_retval, ps, pm,
                   result>>

\* lines 204-207
SolarisFopenUsage ==
    /\ pc = "fopen_usage"
    /\ IF listing[piddir].usage.st = "noent"
       THEN /\ pc' = "readdir"
            /\ UNCHANGED nOpenFiles
       ELSE /\ pc' = "fread_usage"
            /\ nOpenFiles' = nOpenFiles + 1
    /\ UNCHANGED <<host, dir, pos, piddir, buf, retval, final_retval, ps,
                   psinfo, p, pm, result>>

\* lines 208-216
SolarisFreadUsage ==
    /\ pc = "fread_usage"
    /\ LET u == listing[piddir].usage
       IN  IF u.st = "full"
           THEN p' = [p EXCEPT
                        !.user_time = u.ut_sec * 1000000000 + u.ut_nsec,
                        !.kernel_time = u.st_sec * 1000000000 + u.ut_nsec,
                        !.page_fault_count = u.pr_majf + u.pr_minf]
           ELSE UNCHANGED p
    /\ nOpenFiles' = nOpenFiles - 1
    /\ pc' = "insert_solaris"
    /\ UNCHANGED <<host, dir, pos, piddir, buf, retval, final_retval, ps,
                   psinfo, pm, result>>

\* lines 217-218
SolarisInsert ==
    /\ pc = "insert_solaris"
    /\ LET q == [p EXCEPT !.is_boinc_app = (p.id = pid \/ HasBoinc(p.command))]
       IN  /\ p' = q
           /\ pm' = MapInsert(pm, q.id, q)
    /\ pc' = "readdir"
    /\ UNCHANGED <<host, dir, pos, piddir, nOpenFiles, buf, retval,
                   final_retval, ps, psinfo, result>>

\* lines 257-258
closedir ==
    /\ pc = "closedir"
    /\ dir' = "closed"
    /\ pm' = find_children(pm)
    /\ pc' = "return"
    /\ UNCHANGED <<host, pos, piddir, nOpenFiles, buf, retval, final_retval,
                   ps, psinfo, p, result>>

\* line 259
return ==
    /\ pc = "return"
    /\ result' = final_retval
    /\ pc' = "done"
    /\ UNCHANGED <<host, dir, pos, piddir, nOpenFiles, buf, retval,
                   final_retval, ps, psinfo, p, pm>>

NextLinux ==
    \/ opendir
    \/ readdir
    \/ LinuxFopen
    \/ LinuxFgets
    \/ LinuxFclose
    \/ LinuxFill
    \/ LinuxInsert
    \/ closedir
    \/ return

NextSolaris ==
    \/ opendir
    \/ readdir
    \/ SolarisFopenPsinfo
    \/ SolarisFreadPsinfo
    \/ SolarisFopenUsage
    \/ SolarisFreadUsage
    \/ SolarisInsert
    \/ closedir
    \/ return

Next == NextLinux \/ NextSolaris

\* the Linux build, the Solaris build, and either of them
SpecLinux == InitLinux /\ [][NextLinux]_vars
SpecSolaris == InitSolaris /\ [][NextSolaris]_vars
Spec == Init /\ [][Next]_vars

----------------------------------------------------------------------------
(* What the host determines, stated without the scan *)

Max(S) == CHOOSE x \in S : \A y \in S : y <= x

PurelyNumeric(name) == \A i \in 1..Len(name) : isdigit(name[i])

\* a line whose first NFields fields are all of the kind the format expects
WellFormed(f) ==
    /\ f.st = "line"
    /\ f.nf >= NFields
    /\ f.bad = 0 \/ f.bad > NFields

\* entry i is one whose stat file the Linux scan opens
Opened(i) ==
    /\ dirExists
    /\ isdigit(listing[i].name[1])
    /\ listing[i].stat.st # "noent"

\* entry i was opened and its record was not read and parsed
Failing(i) == Opened(i) /\ ~WellFormed(listing[i].stat)

\* entry i was opened, read and parsed
Parsed(i) == Opened(i) /\ WellFormed(listing[i].stat)

\* the code a failing entry leaves in retval
CodeOf(i) == IF listing[i].stat.st = "empty" THEN ERR_NULL ELSE 1

Entries == 1..Len(listing)

\* the stat file of the entry the loop is at
cur == listing[piddir].stat

InLinuxEntry == pc \in {"fopen", "fgets", "fclose", "fill", "insert"}

----------------------------------------------------------------------------
(* Claims *)

\* C1: the code procinfo_setup returns is zero iff no opened entry failed to
\* be read and parsed; otherwise it is the code of the last failing entry in
\* enumeration order, whatever succeeds after it.
C1_LastFailureReturned ==
    pc = "done" =>
        LET F == {i \in Entries : Failing(i)}
        IN  /\ result = 0 <=> F = {}
            /\ F # {} => result = CodeOf(Max(F))

\* C1 witness: two failures with different codes, then a success; the
\* second failure's code is returned.
C1_Witness ==
    /\ pc = "done"
    /\ \E i, j, k \in Entries :
        /\ i < j /\ j < k
        /\ Failing(i) /\ Failing(j) /\ Parsed(k)
        /\ CodeOf(i) # CodeOf(j)
        /\ result = CodeOf(j)
        /\ result # 0

\* C2 as claimed: when the scan returns, the keys of the map are exactly the
\* process ids of the records parsed during this scan.
C2_KeysAreThisScan ==
    pc = "done" =>
        DOMAIN pm = {listing[i].stat.pid : i \in {j \in Entries : Parsed(j)}}

\* C3 as claimed: a record whose field count is not exactly NFields fails to
\* parse and is not inserted.
C3_ExactCountOnly ==
    (pc \in {"fclose", "fill", "insert"} /\ cur.st = "line" /\ cur.nf # NFields)
        => (retval # 0 /\ pc = "fclose")

\* C3 amended: parse succeeds iff the record has at least NFields fields and
\* its first NFields are well-formed; a record with fewer fields fails, one
\* with more succeeds, and only a record that parsed reaches the insertion.
C3_AtLeastCount ==
    /\ (pc = "fclose" /\ cur.st = "line") =>
        /\ retval = 0 <=> WellFormed(cur)
        /\ cur.nf < NFields => retval = 1
        /\ (cur.nf > NFields /\ cur.bad = 0) => retval = 0
    /\ pc \in {"fill", "insert"} => WellFormed(cur)

\* C3 witness: a record of more than NFields fields has been inserted.
C3_Witness ==
    /\ pc = "readdir"
    /\ piddir > 0
    /\ Parsed(piddir)
    /\ cur.nf > NFields
    /\ cur.pid \in DOMAIN pm
    /\ pm[cur.pid].command = cur.comm

\* C4 as claimed: an entry whose stat file cannot be opened, or opens and
\* yields no data, changes neither the map nor the aggregate status code.
C4_VanishedIsSilent ==
    [][(InLinuxEntry /\ cur.st \in {"noent", "empty"})
        => (pm' = pm /\ final_retval' = final_retval)]_vars

\* C4 amended: an entry whose stat file cannot be opened changes neither the
\* map nor the status code; one that opens and yields no data inserts
\* nothing and sets the status code to ERR_NULL.
C4_OnlyOpenFailureIsSilent ==
    [][(InLinuxEntry /\ cur.st \in {"noent", "empty"})
        => /\ pm' = pm
           /\ final_retval' = IF cur.st = "empty" /\ pc = "fclose"
                              THEN ERR_NULL ELSE final_retval]_vars

\* C4 witness: the scan has passed an entry that opened and yielded no data.
C4_Witness ==
    /\ pc = "readdir"
    /\ piddir > 0
    /\ Opened(piddir)
    /\ cur.st = "empty"
    /\ final_retval = ERR_NULL
    /\ pm = pm_arg

\* C5 as claimed: the value stored under an id is the one built from the
\* last record of the scan that parsed with that id.
C5_LastRecordStored ==
    pc = "done" =>
        \A i \in Entries :
            (/\ Parsed(i)
             /\ \A j \in Entries :
                    (j > i /\ Parsed(j)) => listing[j].stat.pid # listing[i].stat.pid)
            => /\ listing[i].stat.pid \in DOMAIN pm
               /\ pm[listing[i].stat.pid].command = listing[i].stat.comm
               /\ pm[listing[i].stat.pid].swap_size = listing[i].stat.vsize

\* C6 as claimed: an entry whose name is not purely numeric is never opened
\* and contributes no key.
C6_NumericNamesOnly ==
    /\ InLinuxEntry => PurelyNumeric(listing[piddir].name)
    /\ \A k \in DOMAIN pm \ DOMAIN pm_arg :
        \E i \in Entries :
            PurelyNumeric(listing[i].name) /\ listing[i].stat.pid = k

\* C7: at most one per-process file is open at any moment, none is open
\* between two entries or after the loop, and when the scan has returned
\* neither a file nor the directory is open.
C7_HandlesReleased ==
    /\ nOpenFiles \in {0, 1}
    /\ pc \in {"opendir", "readdir", "closedir", "return", "done"}
        => nOpenFiles = 0
    /\ pc = "done" => dir # "open"

\* C7 witness: a scan that opened the directory and met both a failing and
\* a successful record has returned.
C7_Witness ==
    /\ pc = "done"
    /\ dir = "closed"
    /\ nOpenFiles = 0
    /\ result # 0
    /\ DOMAIN pm # DOMAIN pm_arg

\* C8 as claimed: when /proc cannot be opened the scan returns an empty map
\* and zero, and has opened no per-process file.
C8_EmptyWithoutProc ==
    (pc = "done" /\ ~dirExists)
        => (DOMAIN pm = {} /\ result = 0 /\ nOpenFiles = 0 /\ piddir = 0)

\* C9 as claimed: swap_size and working_set_size of an entry are both the
\* record's raw value times the page size.
C9_BothTimesPageSize ==
    pc = "insert" =>
        /\ p.swap_size = cur.vsize * pagesize
        /\ p.working_set_size = cur.rss * pagesize

\* C9 amended: working_set_size is the record's rss (pages) times the page
\* size; swap_size is the record's vsize unchanged, which is already bytes.
C9_OnlyRssTimesPageSize ==
    /\ pc = "insert" =>
        /\ p.working_set_size = cur.rss * pagesize
        /\ p.swap_size = cur.vsize
    /\ \A k \in DOMAIN pm \ DOMAIN pm_arg :
        \E i \in Entries :
            /\ Parsed(i)
            /\ listing[i].stat.pid = k
            /\ pm[k].working_set_size = listing[i].stat.rss * pagesize
            /\ pm[k].swap_size = listing[i].stat.vsize

\* C9 witness: an entry built from a record of 3 pages and 20480 bytes has
\* been inserted.
C9_Witness ==
    /\ pc = "readdir"
    /\ piddir > 0
    /\ Parsed(piddir)
    /\ cur.rss = 3
    /\ cur.pid \in DOMAIN pm
    /\ pm[cur.pid].working_set_size = 3 * pagesize
    /\ pm[cur.pid].swap_size = 20480

\* entry i is one whose psinfo the Solaris scan opens and of which one of
\* the two structures is read short
ShortRead(i) ==
    /\ dirExists
    /\ isdigit(listing[i].name[1])
    /\ \/ listing[i].psinfo.st = "short" /\ listing[i].usage.st # "noent"
       \/ listing[i].psinfo.st = "full" /\ listing[i].usage.st = "short"

\* C10 as claimed: a short read of psinfo or usage excludes the entry (no
\* key 0 from a zeroed id) and makes the returned code non-zero.
C10_ShortReadIsMalformed ==
    (pc = "done" /\ \E i \in Entries : ShortRead(i))
        => /\ result # 0
           /\ 0 \notin DOMAIN pm

====
